---- MODULE Spec2Model ----
(***************************************************************************)
(* Model of djedi-react's client class Djedi (src/djedi-react/src/djedi.js) *)
(* as a state machine: the node cache, the rendered-node registry, the      *)
(* batch queue with its debounce timer, the requests in flight and the      *)
(* callbacks delivered.                                                     *)
(*                                                                          *)
(* JavaScript values are modelled as follows.                               *)
(*   undefined          the string Undefined                                *)
(*   a URI string       a record of its five textual parts, "" for a part   *)
(*                      (and its separator) that does not occur in the text *)
(*   a node {uri,value} a record [uri, value]                               *)
(*   an Error           a record [error, status, ...]                       *)
(*   an object / a Map  a function whose DOMAIN is the set of keys          *)
(***************************************************************************)
EXTENDS Integers, Sequences, FiniteSets, TLC

VARIABLES
    options,        \* this.options (the part the model reads: batchInterval)
    _nodes,         \* this._nodes: Map normalized uri -> node
    _renderedNodes, \* this._renderedNodes: Map, as the sequence of its entries
    _batch,         \* this._batch: {timeoutId, queue}
    _DJEDI_NODES,   \* this._DJEDI_NODES, the object window.DJEDI_NODES refers to
    timers,         \* ids of the pending setTimeout(_flushBatch) timers
    fired,          \* history: ids of the timers whose callback has run
    requests,       \* every request sent: in flight, or (history) settled
    calls,          \* history: every get/getBatched call, and how often its
                    \* callback was invoked
    last,           \* history: the last step, with what it delivered
    reported        \* history: per published key, renders minus removals

vars == <<options, _nodes, _renderedNodes, _batch, _DJEDI_NODES, timers, fired,
          requests, calls, last, reported>>

\* ------------------------------------------------------------------ bounds

\* Number of get/getBatched calls in a behaviour of SpecLoad.
MaxCalls == 2

\* Number of entries the rendered-node Map may hold.
MaxRendered == 3

\* Number of get, getBatched, loadMany and loadByPrefix calls in a behaviour
\* of Spec, where they interleave with the rendered-node reports, and of get
\* calls in a behaviour of SpecApi.
MaxCallsAll == 1

\* Number of entries the rendered-node Map may hold in a behaviour of Spec.
MaxRenderedAll == 1

\* Number of loadMany/loadByPrefix calls the user of the class makes in a
\* behaviour of SpecApi.
MaxLoads == 1

\* ------------------------------------------------------- JavaScript values

Undefined == "<undefined>"

\* ------------------------------------------------------------ URI handling

UriFields == {"scheme", "namespace", "path", "ext", "version"}

\* A URI string: the text of each part, "" when the part is not in the text.
UriText(scheme, namespace, path, ext, version) ==
    [scheme |-> scheme, namespace |-> namespace, path |-> path, ext |-> ext,
     version |-> version]

\* options.uri.defaults
UriDefaults ==
    [scheme |-> "i18n", namespace |-> "", path |-> "", ext |-> "txt", version |-> ""]

\* options.uri.namespaceByScheme
NamespaceByScheme == [i18n |-> "en-us", l10n |-> "local", g11n |-> "global"]

\* parseUri(uri, separators): split the text into the five fields; a part that
\* is not in the text is an unset (undefined) field.
parseUri(uri) ==
    [f \in UriFields |-> IF uri[f] = "" THEN Undefined ELSE uri[f]]

\* applyUriDefaults(uriObject, defaults, namespaceByScheme): an unset field
\* takes its default; an unset namespace takes the default namespace of the
\* scheme when the scheme has one.
applyUriDefaults(uriObject, defaults, namespaceByScheme) ==
    LET scheme == IF uriObject.scheme = Undefined THEN defaults.scheme
                  ELSE uriObject.scheme
        namespace ==
            IF uriObject.namespace # Undefined THEN uriObject.namespace
            ELSE IF scheme \in DOMAIN namespaceByScheme
                 THEN namespaceByScheme[scheme]
                 ELSE defaults.namespace
    IN  [f \in UriFields |->
            CASE f = "scheme" -> scheme
              [] f = "namespace" -> namespace
              [] OTHER -> IF uriObject[f] = Undefined THEN defaults[f]
                          ELSE uriObject[f]]

\* stringifyUri(uriObject, separators): each non-empty field with its
\* separator; an empty field contributes no text.
stringifyUri(uriObject) ==
    UriText(IF uriObject.scheme = Undefined THEN "" ELSE uriObject.scheme,
            IF uriObject.namespace = Undefined THEN "" ELSE uriObject.namespace,
            IF uriObject.path = Undefined THEN "" ELSE uriObject.path,
            IF uriObject.ext = Undefined THEN "" ELSE uriObject.ext,
            IF uriObject.version = Undefined THEN "" ELSE uriObject.version)

\* Djedi._parseUri
_parseUri(uri) == applyUriDefaults(parseUri(uri), UriDefaults, NamespaceByScheme)

\* Djedi._stringifyUri
_stringifyUri(uriObject) == stringifyUri(uriObject)

\* Djedi._normalizeUri
_normalizeUri(uri) == _stringifyUri(_parseUri(uri))

\* Djedi._normalizeNode: {...node, uri: normalized}
_normalizeNode(node) == [node EXCEPT !.uri = _stringifyUri(_parseUri(node.uri))]

\* Djedi._djediNodesUri: the URI without its version
_djediNodesUri(uri) == _stringifyUri([_parseUri(uri) EXCEPT !.version = ""])

\* ------------------------------------------------------------------ inputs

\* The URIs callers pass: "a", its absolute form "i18n://en-us@a.txt" and
\* "l10n://b" of another scheme.
PassedUris ==
    { UriText("", "", "a", "", ""),
      UriText("i18n", "en-us", "a", "txt", ""),
      UriText("l10n", "", "b", "", "") }

\* The URIs reported as rendered or removed: the same, and the versioned
\* "a#1".
RenderedUris == PassedUris \cup {UriText("", "", "a", "", "1")}

\* The default values callers pass (a node may have none).
Defaults == {Undefined, "d"}

\* The nodes callers look up: "a" without a default value, and its absolute
\* form and "l10n://b" with one.
PassedNodes ==
    { [uri |-> UriText("", "", "a", "", ""), value |-> Undefined],
      [uri |-> UriText("i18n", "en-us", "a", "txt", ""), value |-> "d"],
      [uri |-> UriText("l10n", "", "b", "", ""), value |-> "d"] }

RenderedNodes == [uri : RenderedUris, value : Defaults]

\* The URI reported as rendered or removed while lookups are under way: the
\* versioned "a#1".
RenderedUrisAll == {UriText("", "", "a", "", "1")}

RenderedNodesAll == [uri : RenderedUrisAll, value : Defaults]

NormUris == {_normalizeUri(u) : u \in PassedUris}

\* The values the server may give a node ("" included).
ServerValues == {"", "x"}

\* The URIs a response may hold as keys.
ResponseUris == NormUris

\* The response bodies of the server: a JSON object uri -> value.
ResultMaps ==
    UNION {[keys -> ServerValues] : keys \in SUBSET ResponseUris}

\* The URIs of the nodes the user of the class loads himself: "a" and
\* "l10n://b", as written (not normalized).
LoadedUris ==
    { UriText("", "", "a", "", ""), UriText("l10n", "", "b", "", "") }

\* The objects passed to loadMany: uri -> default value.
LoadedNodes == {[uri \in LoadedUris |-> "d"]}

\* The lists passed to loadByPrefix.
LoadedPrefixes == {<<"i18n://", "l10n://">>}

\* The response bodies to a load of the user: a JSON object whose keys are
\* URIs as the server writes them, no two of them forms of one URI.
LoadResults ==
    UNION {[keys -> ServerValues] : keys \in SUBSET LoadedUris}

\* The statuses of a failed request: -1 when no response was received,
\* otherwise the status of the response.
FailureStatuses == {-1, 500}

\* ------------------------------------------------- constants of the source

\* makeDefaultOptions().batchInterval
DefaultBatchInterval == 50

\* missingUriError: error.status
MissingUriStatus == 1404

\* makeEmptyBatch().timeoutId: undefined, modelled as 0; setTimeout returns
\* positive ids.
NoTimeoutId == 0

ApiLoadMany == "/djedi/load_many"

ApiLoadByPrefix == "/djedi/load_by_prefix"

\* ------------------------------------------------------------ pure helpers

\* makeDefaultOptions (the options the model reads)
makeDefaultOptions == [batchInterval |-> DefaultBatchInterval]

\* makeEmptyBatch
makeEmptyBatch == [timeoutId |-> NoTimeoutId, queue |-> <<>>]

\* missingUriError(uri): a new Error with status 1404
missingUriError(uri) ==
    [error |-> "Missing result for node", uri |-> uri, status |-> MissingUriStatus]

\* The Error _post rejects with for request `id`: one object per failed
\* request, with error.status set from the response.
PostError(id, status) == [error |-> "Djedi API error", request |-> id, status |-> status]

IsError(v) == "error" \in DOMAIN v

\* JSON.stringify of one node object: a member whose value is undefined is
\* left out.
JsonNode(node) ==
    IF node.value = Undefined THEN [uri |-> node.uri]
    ELSE [uri |-> node.uri, value |-> node.value]

\* JSON.stringify(data) in _post, for the shapes of data the class passes:
\* an array of nodes, an array of strings, and an object uri -> value. A
\* member of an object whose value is undefined is left out of the text.
JsonStringify(data) ==
    IF data.type = "array"
    THEN [type |-> "array",
          elements |-> [i \in DOMAIN data.items |-> JsonNode(data.items[i])]]
    ELSE IF data.type = "strings"
    THEN [type |-> "strings", elements |-> data.items]
    ELSE [type |-> "object",
          members |-> [k \in {u \in DOMAIN data.members :
                                 data.members[u] # Undefined}
                       |-> data.members[k]]]

\* The URIs a request body names.
BodyUris(body) ==
    IF body.type = "array"
    THEN {body.elements[i].uri : i \in DOMAIN body.elements}
    ELSE DOMAIN body.members

\* results[uri]: undefined when the object has no such key.
Lookup(results, uri) ==
    IF uri \in DOMAIN results THEN results[uri] ELSE Undefined

\* Keys of an object in iteration order (any fixed order of the set).
RECURSIVE KeysInOrder(_)
KeysInOrder(keys) ==
    IF keys = {} THEN <<>>
    ELSE LET k == CHOOSE x \in keys : TRUE
         IN  <<k>> \o KeysInOrder(keys \ {k})

\* Map.set(key, value) on a Map modelled as a function.
MapSet(map, key, value) ==
    [k \in DOMAIN map \cup {key} |-> IF k = key THEN value ELSE map[k]]

\* addNodes(nodes): every uri of the object is normalized and stored in the
\* cache with its value.
RECURSIVE AddNodesFrom(_, _, _)
AddNodesFrom(cache, nodes, keys) ==
    IF keys = <<>> THEN cache
    ELSE LET uri == Head(keys)
             rawNode == [uri |-> uri, value |-> nodes[uri]]
             node == _normalizeNode(rawNode)
         IN  AddNodesFrom(MapSet(cache, node.uri, node), nodes, Tail(keys))

\* Mutant of addNodes: every node is stored under the uri as the object
\* writes it.
addNodes_Raw(cache, nodes) ==
    [k \in DOMAIN cache \cup DOMAIN nodes |->
        IF k \in DOMAIN nodes THEN [uri |-> k, value |-> nodes[k]] ELSE cache[k]]

\* Mutant of addNodes: the nodes replace the cache instead of being added to
\* it.
addNodes_Replace(cache, nodes) ==
    AddNodesFrom(<<>>, nodes, KeysInOrder(DOMAIN nodes))

addNodes(cache, nodes) == AddNodesFrom(cache, nodes, KeysInOrder(DOMAIN nodes))

\* ------------------------------------------------------------ history

\* What a callback is invoked with: the argument and its JavaScript type.
Delivery(arg) == [typeof |-> "object", arg |-> arg]

\* A callback invoked with a string or undefined instead of an object: the
\* argument is the primitive value.
DeliveryOfValue(value) ==
    [typeof |-> IF value = Undefined THEN "undefined" ELSE "string",
     arg |-> [primitive |-> value]]

\* The id of the callback the next get/getBatched call passes.
NextCall == Len(calls) + 1

\* The id of the next request.
NextRequest == Len(requests) + 1

RECURSIVE MaxOf(_)
MaxOf(S) ==
    IF S = {} THEN 0
    ELSE LET x == CHOOSE y \in S : TRUE
             m == MaxOf(S \ {x})
         IN  IF x > m THEN x ELSE m

\* The id setTimeout returns next: ids are positive and never reused.
NextTimeoutId == MaxOf({calls[c].timer : c \in DOMAIN calls}) + 1

\* A call as recorded: the operation, the normalized uri, whether it was
\* answered from the cache, the timer pending when it was queued (0: not
\* queued) and the number of times its callback was invoked.
CallRecord(op, uri, cached, timer, answers) ==
    [op |-> op, uri |-> uri, cached |-> cached, timer |-> timer,
     answers |-> answers]

\* The last step, when it is a get or getBatched call: the call, what its
\* callback was invoked with before the call returned (call id -> delivery),
\* and the resetNodes step the call follows at once, if it does.
CallStep(call, got) ==
    [op |-> "call", call |-> call, got |-> got,
     after |-> IF last.op = "resetNodes" THEN last ELSE [op |-> "other"]]

\* The last step, when a request settled: the request as it was in flight,
\* its response and what the callbacks were invoked with.
SettleStep(req, request, response, got) ==
    [op |-> "settle", req |-> req, request |-> request, response |-> response,
     got |-> got]

\* The last step, when a request of loadMany/loadByPrefix called by the user
\* settled: as SettleStep, with what the promise returned to the user
\* settled to.
LoadStep(req, request, response, promise) ==
    [op |-> "settle", req |-> req, request |-> request, response |-> response,
     got |-> <<>>, promise |-> promise]

\* The last step, when it is resetNodes: the URIs the cache held and the keys
\* the externally visible map held before it.
ResetStep(cached, published) ==
    [op |-> "resetNodes", cached |-> cached, published |-> published]

\* The last step, when it is any other.
OtherStep == [op |-> "other"]

\* ------------------------------------------------------------------- state

Init ==
    /\ options = makeDefaultOptions
    /\ _nodes = <<>>
    /\ _renderedNodes = <<>>
    /\ _batch = makeEmptyBatch
    /\ _DJEDI_NODES = <<>>
    /\ timers = {}
    /\ fired = {}
    /\ requests = <<>>
    /\ calls = <<>>
    /\ last = OtherStep
    /\ reported = <<>>

\* _post(passedUrl, data): the request sent, with what its promise is chained
\* to (`from`).
_post(passedUrl, data, from) ==
    [apiUrl |-> passedUrl, body |-> JsonStringify(data), state |-> "pending",
     from |-> from]

\* loadMany(nodes): _post("/djedi/load_many", nodes)
loadMany(nodes, from) == _post(ApiLoadMany, nodes, from)

\* loadByPrefix(prefixes): _post("/djedi/load_by_prefix", prefixes)
loadByPrefix(prefixes, from) == _post(ApiLoadByPrefix, prefixes, from)

\* The argument get's success handler passes: results[uri] || missingUriError(uri)
GetResultDelivery(results, uri) ==
    LET value == Lookup(results, uri)
    IN  IF value = Undefined \/ value = ""
        THEN Delivery(missingUriError(uri))
        ELSE DeliveryOfValue(value)

\* Mutant of FlushResultDelivery: the value tested with ||, as get does.
FlushResultDelivery_Falsy(results, uri) ==
    LET value == Lookup(results, uri)
    IN  IF value = Undefined \/ value = ""
        THEN Delivery(missingUriError(uri))
        ELSE Delivery([uri |-> uri, value |-> value])

\* The argument _flushBatch's success handler passes for one queued uri:
\* value == null ? missingUriError(uri) : { uri, value }
FlushResultDelivery(results, uri) ==
    LET value == Lookup(results, uri)
    IN  IF value = Undefined
        THEN Delivery(missingUriError(uri))
        ELSE Delivery([uri |-> uri, value |-> value])

\* The argument get's error handler passes: the error.
GetErrorDelivery(error) == Delivery(error)

\* Mutant of FlushErrorDelivery: every callback gets an Error of its own.
FlushErrorDelivery_Fresh(error) ==
    Delivery(PostError(0, error.status))

\* The argument _flushBatch's error handler passes to every callback: the
\* error.
FlushErrorDelivery(error) == Delivery(error)

\* Mutant of HasNode: the cache is never consulted.
HasNode_Never(cache, uri) == FALSE

\* existingNode != null, for existingNode = this._nodes.get(uri)
HasNode(cache, uri) == uri \in DOMAIN cache

\* get(passedNode, callback), entered as operation `op`.
GetBody(op, passedNode) ==
    LET node == _normalizeNode(passedNode)
        uri == node.uri
    IN  IF HasNode(_nodes, uri)
        THEN /\ calls' = Append(calls, CallRecord(op, uri, TRUE, 0, 1))
             /\ last' = CallStep(NextCall, NextCall :> Delivery(_nodes[uri]))
             /\ UNCHANGED <<requests, _batch, timers>>
        ELSE /\ requests' = Append(requests,
                    loadMany([type |-> "array", items |-> <<node>>],
                             [op |-> "get", call |-> NextCall, uri |-> uri]))
             /\ calls' = Append(calls, CallRecord(op, uri, FALSE, 0, 0))
             /\ last' = CallStep(NextCall, <<>>)
             /\ UNCHANGED <<_batch, timers>>

Get(passedNode) ==
    /\ GetBody("get", passedNode)
    /\ UNCHANGED <<options, _nodes, _renderedNodes, _DJEDI_NODES, fired, reported>>

\* Mutant of Enqueue: the callback is pushed twice.
Enqueue_Twice(queue, node, callback) ==
    LET previous == IF node.uri \in DOMAIN queue THEN queue[node.uri]
                    ELSE [node |-> node, callbacks |-> <<>>]
    IN  MapSet(queue, node.uri,
               [previous EXCEPT !.callbacks = Append(Append(@, callback), callback)])

\* The queue after getBatched has pushed the callback for node.uri.
Enqueue(queue, node, callback) ==
    LET previous == IF node.uri \in DOMAIN queue THEN queue[node.uri]
                    ELSE [node |-> node, callbacks |-> <<>>]
    IN  MapSet(queue, node.uri,
               [previous EXCEPT !.callbacks = Append(@, callback)])

GetBatched(passedNode) ==
    /\ IF options.batchInterval <= 0
       THEN GetBody("getBatched", passedNode)
       ELSE LET node == _normalizeNode(passedNode)
                queue == Enqueue(_batch.queue, node, NextCall)
            IN  IF HasNode(_nodes, node.uri)
                THEN /\ calls' = Append(calls,
                            CallRecord("getBatched", node.uri, TRUE, 0, 1))
                     /\ last' = CallStep(NextCall,
                                         NextCall :> Delivery(_nodes[node.uri]))
                     /\ UNCHANGED <<requests, _batch, timers>>
                ELSE IF _batch.timeoutId # NoTimeoutId
                THEN /\ _batch' = [_batch EXCEPT !.queue = queue]
                     /\ calls' = Append(calls,
                            CallRecord("getBatched", node.uri, FALSE,
                                       _batch.timeoutId, 0))
                     /\ last' = CallStep(NextCall, <<>>)
                     /\ UNCHANGED <<requests, timers>>
                ELSE /\ _batch' = [timeoutId |-> NextTimeoutId, queue |-> queue]
                     /\ timers' = timers \cup {NextTimeoutId}
                     /\ calls' = Append(calls,
                            CallRecord("getBatched", node.uri, FALSE,
                                       NextTimeoutId, 0))
                     /\ last' = CallStep(NextCall, <<>>)
                     /\ UNCHANGED requests
    /\ UNCHANGED <<options, _nodes, _renderedNodes, _DJEDI_NODES, fired, reported>>

\* The object _flushBatch posts: nodes[uri] = data.node.value
FlushNodes(queue) == [uri \in DOMAIN queue |-> queue[uri].node.value]

\* Mutant of BatchAfterFlush: the queue is emptied and the timeout id kept.
BatchAfterFlush_KeepsTimeoutId(batch) == [batch EXCEPT !.queue = <<>>]

\* Mutant of BatchAfterFlush: the timeout id is cleared and the queue kept.
BatchAfterFlush_KeepsQueue(batch) == [batch EXCEPT !.timeoutId = NoTimeoutId]

\* this._batch after _flushBatch has taken its queue: makeEmptyBatch()
BatchAfterFlush(batch) == makeEmptyBatch

\* The timer `id` fires and runs _flushBatch.
FlushBatch(id) ==
    /\ id \in timers
    /\ LET queue == _batch.queue
       IN  /\ requests' = Append(requests,
                  loadMany([type |-> "object", members |-> FlushNodes(queue)],
                           [op |-> "flush", queue |-> queue, timer |-> id]))
           /\ _batch' = BatchAfterFlush(_batch)
    /\ timers' = timers \ {id}
    /\ fired' = fired \cup {id}
    /\ last' = OtherStep
    /\ UNCHANGED <<options, _nodes, _renderedNodes, _DJEDI_NODES, calls, reported>>

\* Mutant of Deliveries: the handlers of a flush read the queue of
\* this._batch when the response arrives instead of the queue they captured.
Deliveries_CurrentQueue(from, response) ==
    IF from.op = "get"
    THEN [c \in {from.call} |->
            IF response.ok THEN GetResultDelivery(response.results, from.uri)
            ELSE GetErrorDelivery(response.error)]
    ELSE IF from.op = "flush"
    THEN LET queue == _batch.queue
             uriOf(c) == CHOOSE uri \in DOMAIN queue :
                            \E i \in DOMAIN queue[uri].callbacks :
                                queue[uri].callbacks[i] = c
             ids == UNION {{queue[uri].callbacks[i] :
                               i \in DOMAIN queue[uri].callbacks} :
                           uri \in DOMAIN queue}
         IN  [c \in ids |->
                IF response.ok
                THEN FlushResultDelivery(response.results, uriOf(c))
                ELSE FlushErrorDelivery(response.error)]
    ELSE <<>>

\* The callbacks a settled request invokes: call id -> delivery.
\* `response` is [ok |-> TRUE, results |-> ...] or [ok |-> FALSE, error |-> ...].
Deliveries(from, response) ==
    IF from.op = "get"
    THEN [c \in {from.call} |->
            IF response.ok THEN GetResultDelivery(response.results, from.uri)
            ELSE GetErrorDelivery(response.error)]
    ELSE IF from.op = "flush"
    THEN LET uriOf(c) == CHOOSE uri \in DOMAIN from.queue :
                            \E i \in DOMAIN from.queue[uri].callbacks :
                                from.queue[uri].callbacks[i] = c
             ids == UNION {{from.queue[uri].callbacks[i] :
                               i \in DOMAIN from.queue[uri].callbacks} :
                           uri \in DOMAIN from.queue}
         IN  [c \in ids |->
                IF response.ok
                THEN FlushResultDelivery(response.results, uriOf(c))
                ELSE FlushErrorDelivery(response.error)]
    ELSE <<>>

\* The number of times the handlers of a settled request invoke the callback
\* `c`: once for get, once for every place the callback has in the queue of
\* a flush.
Invocations(from, c) ==
    IF from.op = "flush"
    THEN Cardinality(
            {p \in UNION {{<<uri, i>> : i \in DOMAIN from.queue[uri].callbacks} :
                          uri \in DOMAIN from.queue} :
                from.queue[p[1]].callbacks[p[2]] = c})
    ELSE 1

\* A request as history keeps it once it has settled: what sent it.
SettledRequest(request) ==
    [apiUrl |-> request.apiUrl, state |-> "settled",
     from |-> IF request.from.op = "flush"
              THEN [op |-> "flush", timer |-> request.from.timer]
              ELSE request.from]

\* The operations of a load the user of the class makes himself.
LoadOps == {"loadMany", "loadByPrefix"}

\* The promise loadMany/loadByPrefix returned to the user, once settled:
\* fulfilled with the results (`return results`) or rejected with the error.
LoadPromise(response) ==
    IF response.ok THEN [state |-> "fulfilled", value |-> response.results]
    ELSE [state |-> "rejected", reason |-> response.error]

\* Mutant of CacheAfter: a failed request empties the cache.
CacheAfter_FailureClears(cache, response) ==
    IF response.ok THEN addNodes(cache, response.results) ELSE <<>>

\* The cache once loadMany/loadByPrefix has handled the response: its only
\* handler, for success, calls addNodes(results).
CacheAfter(cache, response) ==
    IF response.ok THEN addNodes(cache, response.results) ELSE cache

\* The request `req` settles with `response`: on success loadMany (or
\* loadByPrefix) adds the results to the cache, then the handlers chained to
\* the promise run.
Settle(req, response) ==
    /\ req \in DOMAIN requests
    /\ requests[req].state = "pending"
    /\ requests' = [requests EXCEPT ![req] = SettledRequest(requests[req])]
    /\ _nodes' = CacheAfter(_nodes, response)
    /\ LET got == Deliveries(requests[req].from, response)
       IN  /\ calls' = [c \in DOMAIN calls |->
                           IF c \in DOMAIN got
                           THEN [calls[c] EXCEPT !.answers =
                                    @ + Invocations(requests[req].from, c)]
                           ELSE calls[c]]
           /\ last' = IF requests[req].from.op \in LoadOps
                      THEN LoadStep(req, requests[req], response,
                                    LoadPromise(response))
                      ELSE SettleStep(req, requests[req], response, got)
    /\ UNCHANGED <<options, _renderedNodes, _batch, _DJEDI_NODES, timers, fired,
                   reported>>

\* unfetch resolves with a 2xx/3xx response whose body parses to `results`.
Resolve(req, results) ==
    Settle(req, [ok |-> TRUE, results |-> results])

\* unfetch rejects, the status is outside 200..399 or the body is no JSON:
\* _post rejects with one Error carrying `status`.
Reject(req, status) ==
    Settle(req, [ok |-> FALSE, error |-> PostError(req, status)])

\* loadMany(nodes), called by the user of the class.
LoadMany(nodes) ==
    /\ requests' = Append(requests,
           loadMany([type |-> "object", members |-> nodes],
                    [op |-> "loadMany"]))
    /\ last' = OtherStep
    /\ UNCHANGED <<options, _nodes, _renderedNodes, _batch, _DJEDI_NODES, timers,
                   fired, calls, reported>>

\* loadByPrefix(prefixes), called by the user of the class.
LoadByPrefix(prefixes) ==
    /\ requests' = Append(requests,
           loadByPrefix([type |-> "strings", items |-> prefixes],
                        [op |-> "loadByPrefix"]))
    /\ last' = OtherStep
    /\ UNCHANGED <<options, _nodes, _renderedNodes, _batch, _DJEDI_NODES, timers,
                   fired, calls, reported>>

\* ---------------------------------------------------- rendered-node registry

\* The value of a Map entry that was set without a value.
NoValue == [undefined |-> TRUE]

\* A key of the rendered-node Map: a string, or an object (every object
\* literal is a key of its own).
StringKey(uri) == [typeof |-> "string", string |-> uri]
ObjectKey(object) == [typeof |-> "object", object |-> object]

\* The indexes of the entries Map.get(uri) can return: the entry whose key
\* is the string uri.
EntriesOf(map, uri) ==
    {i \in DOMAIN map : map[i].key.typeof = "string" /\ map[i].key.string = uri}

\* this._renderedNodes.get(uri) != null
HasRendered(map, uri) ==
    \E i \in EntriesOf(map, uri) : map[i].value # NoValue

\* The index of the entry this._renderedNodes.get(uri) returns.
RenderedIndex(map, uri) ==
    CHOOSE i \in EntriesOf(map, uri) : map[i].value # NoValue

\* this._renderedNodes.set({value, numInstances: 1}): the object is the key
\* and the entry has no value.
SetRendered(map, node) ==
    Append(map, [key |-> ObjectKey([value |-> node.value, numInstances |-> 1]),
                 value |-> NoValue])

\* this._renderedNodes.delete(uri)
RECURSIVE DeleteRendered(_, _)
DeleteRendered(map, uri) ==
    IF map = <<>> THEN <<>>
    ELSE IF Head(map).key.typeof = "string" /\ Head(map).key.string = uri
         THEN DeleteRendered(Tail(map), uri)
         ELSE <<Head(map)>> \o DeleteRendered(Tail(map), uri)

\* delete object[key]
DeleteKey(object, key) == [k \in DOMAIN object \ {key} |-> object[k]]

\* The count of renders minus removals of `key` since the last resetNodes,
\* changed by `change`; -1 once the removals have outnumbered the renders.
ReportedCount(counts, key) == IF key \in DOMAIN counts THEN counts[key] ELSE 0

Reported(counts, key, change) ==
    LET count == ReportedCount(counts, key)
    IN  MapSet(counts, key, IF count < 0 \/ count + change < 0 THEN -1
                            ELSE count + change)

ReportRenderedNode(passedNode) ==
    /\ LET node == _normalizeNode(passedNode)
       IN  IF HasRendered(_renderedNodes, node.uri)
           THEN /\ _renderedNodes' =
                      [_renderedNodes EXCEPT
                          ![RenderedIndex(_renderedNodes, node.uri)].value.numInstances
                              = @ + 1]
                /\ UNCHANGED _DJEDI_NODES
           ELSE /\ _renderedNodes' = SetRendered(_renderedNodes, node)
                /\ _DJEDI_NODES' =
                      MapSet(_DJEDI_NODES, _djediNodesUri(node.uri), node.value)
           /\ reported' = Reported(reported, _djediNodesUri(node.uri), 1)
    /\ last' = OtherStep
    /\ UNCHANGED <<options, _nodes, _batch, timers, fired, requests, calls>>

ReportRemovedNode(passedUri) ==
    /\ LET uri == _normalizeUri(passedUri)
       IN  IF ~HasRendered(_renderedNodes, uri)
           THEN UNCHANGED <<_renderedNodes, _DJEDI_NODES>>
           ELSE LET i == RenderedIndex(_renderedNodes, uri)
                    numInstances == _renderedNodes[i].value.numInstances - 1
                IN  IF numInstances <= 0
                    THEN /\ _renderedNodes' = DeleteRendered(_renderedNodes, uri)
                         /\ _DJEDI_NODES' =
                               DeleteKey(_DJEDI_NODES, _djediNodesUri(uri))
                    ELSE /\ _renderedNodes' =
                               [_renderedNodes EXCEPT
                                   ![i].value.numInstances = numInstances]
                         /\ UNCHANGED _DJEDI_NODES
    /\ reported' = Reported(reported, _djediNodesUri(passedUri), -1)
    /\ last' = OtherStep
    /\ UNCHANGED <<options, _nodes, _batch, timers, fired, requests, calls>>

\* ------------------------------------------------------------------ resets

\* The caller assigns djedi.options.batchInterval.
SetBatchInterval(interval) ==
    /\ options.batchInterval # interval
    /\ options' = [options EXCEPT !.batchInterval = interval]
    /\ last' = OtherStep
    /\ UNCHANGED <<_nodes, _renderedNodes, _batch, _DJEDI_NODES, timers, fired,
                   requests, calls, reported>>

ResetOptions ==
    /\ options' = makeDefaultOptions
    /\ last' = OtherStep
    /\ UNCHANGED <<_nodes, _renderedNodes, _batch, _DJEDI_NODES, timers, fired,
                   requests, calls, reported>>

\* Mutant of ClearTimeoutOf: the test of the timeout id is inverted.
ClearTimeoutOf_WhenUnset(batch, pending) ==
    IF batch.timeoutId = NoTimeoutId THEN pending \ {batch.timeoutId} ELSE pending

\* Mutant of ClearTimeoutOf: the pending timer is left running.
ClearTimeoutOf_Never(batch, pending) == pending

\* clearTimeout(this._batch.timeoutId) when a timeout id is set
ClearTimeoutOf(batch, pending) ==
    IF batch.timeoutId # NoTimeoutId THEN pending \ {batch.timeoutId} ELSE pending

ResetNodes ==
    /\ timers' = ClearTimeoutOf(_batch, timers)
    /\ _nodes' = <<>>
    /\ _renderedNodes' = <<>>
    /\ _batch' = makeEmptyBatch
    /\ _DJEDI_NODES' = <<>>
    /\ last' = ResetStep(DOMAIN _nodes, DOMAIN _DJEDI_NODES)
    /\ reported' = <<>>
    /\ UNCHANGED <<options, fired, requests, calls>>

\* addNodes(nodes), called by the user of the class.
AddNodes(nodes) ==
    /\ _nodes' = addNodes(_nodes, nodes)
    /\ last' = OtherStep
    /\ UNCHANGED <<options, _renderedNodes, _batch, _DJEDI_NODES, timers, fired,
                   requests, calls, reported>>

\* ----------------------------------------------------------- specification

\* The objects passed to addNodes: one uri with the value "x".
AddedNodes == {[keys \in {uri} |-> "x"] : uri \in ResponseUris}

\* The URIs a request in flight asks for.
RequestedUris(request) ==
    IF request.from.op = "get" THEN {request.from.uri}
    ELSE DOMAIN request.from.queue

\* The response bodies to a request in flight: the server answers for any of
\* the URIs asked for (addNodes stands for what else a response may hold).
ResultsFor(req) ==
    IF requests[req].state # "pending" THEN {}
    ELSE IF requests[req].from.op \in LoadOps THEN LoadResults
    ELSE {results \in ResultMaps :
             DOMAIN results \subseteq RequestedUris(requests[req])}

\* The intervals a caller sets: batching off, and the default.
BatchIntervals == {0, DefaultBatchInterval}

\* The steps of the client that do not depend on a bound: timers, responses,
\* option changes, addNodes and resetNodes.
Unbounded ==
    \/ \E id \in timers : FlushBatch(id)
    \/ \E req \in DOMAIN requests :
          \E results \in ResultsFor(req) : Resolve(req, results)
    \/ \E req \in DOMAIN requests, status \in FailureStatuses : Reject(req, status)
    \/ \E interval \in BatchIntervals : SetBatchInterval(interval)
    \/ \E nodes \in AddedNodes : AddNodes(nodes)
    \/ ResetOptions
    \/ ResetNodes

\* Lookups, with at most maxCalls calls.
Lookups(maxCalls) ==
    /\ Len(calls) < maxCalls
    /\ \/ \E passedNode \in PassedNodes : Get(passedNode)
       \/ \E passedNode \in PassedNodes : GetBatched(passedNode)

\* Reports of rendered and removed nodes, with at most maxRendered entries.
Reports(maxRendered, nodes, uris) ==
    \/ /\ Len(_renderedNodes) < maxRendered
       /\ \E passedNode \in nodes : ReportRenderedNode(passedNode)
    \/ \E passedUri \in uris : ReportRemovedNode(passedUri)

\* The client without the rendered-node reports.
NextLoad == Lookups(MaxCalls) \/ Unbounded

SpecLoad == Init /\ [][NextLoad]_vars

\* A pending flush timer fires.
Fire == \E id \in timers : FlushBatch(id)

\* A request in flight completes, with a response or with a failure.
Respond ==
    \E req \in DOMAIN requests :
        \/ \E results \in ResultsFor(req) : Resolve(req, results)
        \/ \E status \in FailureStatuses : Reject(req, status)

\* The client without the rendered-node reports, where every timer that
\* stays pending fires and every request in flight completes.
SpecLive == SpecLoad /\ WF_vars(Fire) /\ WF_vars(Respond)

\* The objects passed to addNodes next to the loads of the user: "a" or
\* "l10n://b", as written, with the value "x".
AddedNodesApi == {[keys \in {uri} |-> "x"] : uri \in LoadedUris}

\* Loads by the user of the class, at most maxLoads of them.
Loads(maxLoads) ==
    /\ Cardinality({r \in DOMAIN requests : requests[r].from.op \in LoadOps})
          < maxLoads
    /\ \/ \E nodes \in LoadedNodes : LoadMany(nodes)
       \/ \E prefixes \in LoadedPrefixes : LoadByPrefix(prefixes)

\* The calls made so far that ask the server: get, getBatched, loadMany and
\* loadByPrefix.
Asked ==
    Len(calls)
    + Cardinality({r \in DOMAIN requests : requests[r].from.op \in LoadOps})

\* The whole client.
Next ==
    \/ /\ Asked < MaxCallsAll
       /\ \/ Lookups(MaxCallsAll)
          \/ Loads(MaxCallsAll)
    \/ Reports(MaxRenderedAll, RenderedNodesAll, RenderedUrisAll)
    \/ Unbounded

Spec == Init /\ [][Next]_vars

\* The cache and what fills it: get, the loads of the user, the responses,
\* addNodes and resetNodes.
NextApi ==
    \/ /\ Len(calls) < MaxCallsAll
       /\ \E passedNode \in PassedNodes : Get(passedNode)
    \/ Loads(MaxLoads)
    \/ \E req \in DOMAIN requests :
          \E results \in ResultsFor(req) : Resolve(req, results)
    \/ \E req \in DOMAIN requests, status \in FailureStatuses : Reject(req, status)
    \/ \E nodes \in AddedNodesApi : AddNodes(nodes)
    \/ ResetNodes

SpecApi == Init /\ [][NextApi]_vars

\* The rendered-node registry alone.
NextRendered == Reports(MaxRendered, RenderedNodes, RenderedUris) \/ ResetNodes

SpecRendered == Init /\ [][NextRendered]_vars

\* ------------------------------------------------------------------ claims

\* The calls queued while the timer `id` was pending.
QueuedWith(id) == {c \in DOMAIN calls : calls[c].timer = id}

\* The requests _flushBatch sent when the timer `id` fired.
FlushRequestsOf(id) ==
    {r \in DOMAIN requests :
        requests[r].from.op = "flush" /\ requests[r].from.timer = id}

FlushRequests == {r \in DOMAIN requests : requests[r].from.op = "flush"}

GetRequests == {r \in DOMAIN requests : requests[r].from.op = "get"}

\* The callbacks a flushed queue holds.
CallbacksOf(queue) ==
    UNION {{queue[uri].callbacks[i] : i \in DOMAIN queue[uri].callbacks} :
           uri \in DOMAIN queue}

Settled(r) == requests[r].state = "settled"

\* The last step settled the request of a flush / of a get.
FlushSettled == last.op = "settle" /\ last.request.from.op = "flush"

GetSettled == last.op = "settle" /\ last.request.from.op = "get"

\* C1: every flush timer that has fired produced exactly one load_many
\* request, and the URIs of that request's body are the distinct URIs queued
\* by the getBatched calls made while the timer was pending.
C1_OneRequestCoversWindow ==
    \A id \in fired :
        /\ Cardinality(FlushRequestsOf(id)) = 1
        /\ \A r \in FlushRequestsOf(id) :
              /\ requests[r].apiUrl = ApiLoadMany
              /\ ~Settled(r) =>
                    BodyUris(requests[r].body) =
                        {calls[c].uri : c \in QueuedWith(id)}

\* C2: a getBatched call queued after a flush belongs to a batch of its own:
\* it is queued under a timer no other flush request was sent for, the
\* request of its batch names only URIs queued under that timer and holds
\* exactly the callbacks queued under it, and its callback is invoked only
\* when that request settles, with what that request's response gives for
\* its URI.
C2_SecondBatchIndependent ==
    /\ \A r1, r2 \in FlushRequests :
          r1 # r2 => requests[r1].from.timer # requests[r2].from.timer
    /\ \A r \in FlushRequests :
          ~Settled(r) =>
             /\ BodyUris(requests[r].body)
                   \subseteq {calls[c].uri : c \in QueuedWith(requests[r].from.timer)}
             /\ CallbacksOf(requests[r].from.queue) =
                   QueuedWith(requests[r].from.timer)
             /\ \A c \in QueuedWith(requests[r].from.timer) : calls[c].answers = 0
    /\ \A c \in DOMAIN calls :
          calls[c].timer # NoTimeoutId =>
             /\ calls[c].timer \in timers =>
                   /\ _batch.timeoutId = calls[c].timer
                   /\ c \in CallbacksOf(_batch.queue)
                   /\ calls[c].answers = 0
             /\ calls[c].answers > 0 =>
                   /\ calls[c].answers = 1
                   /\ \E r \in FlushRequestsOf(calls[c].timer) : Settled(r)
    /\ FlushSettled =>
          /\ DOMAIN last.got = QueuedWith(last.request.from.timer)
          /\ \A c \in DOMAIN last.got :
                /\ last.got[c].typeof = "object"
                /\ last.got[c].arg =
                      IF ~last.response.ok THEN last.response.error
                      ELSE IF calls[c].uri \in DOMAIN last.response.results
                      THEN [uri |-> calls[c].uri,
                            value |-> last.response.results[calls[c].uri]]
                      ELSE missingUriError(calls[c].uri)

\* C2 witness: a second batch's request has settled and answered its callback
\* while the request of an earlier flush is still in flight.
C2_Witness ==
    \E r1, r2 \in FlushRequests :
        /\ requests[r1].from.timer < requests[r2].from.timer
        /\ ~Settled(r1)
        /\ Settled(r2)
        /\ \E c \in QueuedWith(requests[r2].from.timer) : calls[c].answers = 1
        /\ \E c \in QueuedWith(requests[r1].from.timer) : calls[c].answers = 0

\* C5: when the request of a flush fails, every callback of its queue is
\* invoked once, with the one error of that request.
C5_SameErrorToAll ==
    (FlushSettled /\ ~last.response.ok) =>
        \A c \in CallbacksOf(last.request.from.queue) :
            /\ c \in DOMAIN last.got
            /\ calls[c].answers = 1
            /\ last.got[c].typeof = "object"
            /\ last.got[c].arg = last.response.error
            /\ last.got[c].arg.request = last.req

\* C5 witness: a flush has failed whose queue held two callbacks for one URI.
C5_Witness ==
    /\ FlushSettled
    /\ ~last.response.ok
    /\ \E uri \in DOMAIN last.request.from.queue :
          Len(last.request.from.queue[uri].callbacks) = 2

\* C6: when the request of a flush succeeds, every callback queued for a URI
\* of the response is invoked with the node {uri, value} of that URI, and
\* every callback queued for a URI the response omits with a missing-URI
\* error of status 1404.
C6_PerUriOutcome ==
    (FlushSettled /\ last.response.ok) =>
        \A uri \in DOMAIN last.request.from.queue :
            \A i \in DOMAIN last.request.from.queue[uri].callbacks :
                LET c == last.request.from.queue[uri].callbacks[i]
                    results == last.response.results
                IN  /\ c \in DOMAIN last.got
                    /\ calls[c].answers = 1
                    /\ last.got[c].typeof = "object"
                    /\ IF uri \in DOMAIN results
                       THEN last.got[c].arg = [uri |-> uri, value |-> results[uri]]
                       ELSE /\ IsError(last.got[c].arg)
                            /\ last.got[c].arg.status = 1404
                            /\ last.got[c].arg.uri = uri

\* C6 witness: a flush of two URIs has succeeded with a response that holds
\* one of them and omits the other.
C6_Witness ==
    /\ FlushSettled
    /\ last.response.ok
    /\ \E u1, u2 \in DOMAIN last.request.from.queue :
          /\ u1 \in DOMAIN last.response.results
          /\ u2 \notin DOMAIN last.response.results

\* The call a step adds, when it adds one.
AddsCall == Len(calls') = Len(calls) + 1

\* C7: a get or getBatched call for a URI whose normalized form is in the
\* cache invokes its callback before it returns, with the cached node, and
\* sends no request, queues nothing and starts no timer.
C7_CachedIsSynchronous ==
    [][(AddsCall /\ calls'[Len(calls')].uri \in DOMAIN _nodes) =>
          /\ last'.op = "call"
          /\ last'.call = Len(calls')
          /\ last'.got = (Len(calls') :>
                            [typeof |-> "object",
                             arg |-> _nodes[calls'[Len(calls')].uri]])
          /\ calls'[Len(calls')].answers = 1
          /\ requests' = requests
          /\ _batch' = _batch
          /\ timers' = timers]_vars

\* C7 witness: with batching enabled, a getBatched call has just been
\* answered from the cache, and a get call was answered from it before.
C7_Witness ==
    /\ options.batchInterval > 0
    /\ last.op = "call"
    /\ calls[last.call].op = "getBatched"
    /\ calls[last.call].cached
    /\ last.call \in DOMAIN last.got
    /\ \E c \in DOMAIN calls : calls[c].op = "get" /\ calls[c].cached

\* C8: a get on an uncached URI sends one load_many request for that URI;
\* when it settles the callback is invoked once: with the node {uri, value}
\* when the response holds the URI, with a missing-URI error of status 1404
\* when it omits it, with the request's error when it failed.
C8_GetOutcome ==
    /\ \A c \in DOMAIN calls :
          (calls[c].op = "get" /\ ~calls[c].cached) =>
              Cardinality({r \in GetRequests : requests[r].from.call = c}) = 1
    /\ \A r \in GetRequests :
          /\ requests[r].apiUrl = ApiLoadMany
          /\ ~Settled(r) =>
                /\ BodyUris(requests[r].body) = {requests[r].from.uri}
                /\ calls[requests[r].from.call].answers = 0
          /\ Settled(r) => calls[requests[r].from.call].answers = 1
    /\ GetSettled =>
          LET c == last.request.from.call
              uri == last.request.from.uri
          IN  /\ DOMAIN last.got = {c}
              /\ last.got[c].typeof = "object"
              /\ IF ~last.response.ok
                 THEN last.got[c].arg = last.response.error
                 ELSE IF uri \in DOMAIN last.response.results
                 THEN last.got[c].arg =
                         [uri |-> uri, value |-> last.response.results[uri]]
                 ELSE /\ IsError(last.got[c].arg)
                      /\ last.got[c].arg.status = 1404

\* C9: the body of every load_many request in flight is an object whose keys
\* are normalized URIs the request asks for and whose values are the default
\* values of their nodes.
C9_BodyIsUriToDefault ==
    \A r \in DOMAIN requests :
        (~Settled(r) /\ requests[r].apiUrl = ApiLoadMany) =>
            /\ requests[r].body.type = "object"
            /\ DOMAIN requests[r].body.members
                  \subseteq RequestedUris(requests[r])
            /\ \A uri \in DOMAIN requests[r].body.members :
                  /\ uri = _normalizeUri(uri)
                  /\ requests[r].body.members[uri] \in Defaults
                  /\ requests[r].from.op = "flush" =>
                        requests[r].body.members[uri] =
                            requests[r].from.queue[uri].node.value

\* C10: right after resetNodes the cache, the rendered-node registry, the
\* batch queue and the externally visible map are empty and no flush timer
\* is pending; a get made then for a URI that was cached before the reset
\* does not invoke its callback and sends a request for the URI.
C10_ResetClearsAll ==
    /\ last.op = "resetNodes" =>
          /\ _nodes = <<>>
          /\ _renderedNodes = <<>>
          /\ _batch.queue = <<>>
          /\ _batch.timeoutId = NoTimeoutId
          /\ _DJEDI_NODES = <<>>
          /\ timers = {}
    /\ (/\ last.op = "call"
        /\ last.after.op = "resetNodes"
        /\ calls[last.call].op = "get"
        /\ calls[last.call].uri \in last.after.cached) =>
          /\ last.got = <<>>
          /\ calls[last.call].answers = 0
          /\ requests # <<>>
          /\ requests[Len(requests)].state = "pending"
          /\ requests[Len(requests)].from.op = "get"
          /\ requests[Len(requests)].from.call = last.call
          /\ calls[last.call].uri \in BodyUris(requests[Len(requests)].body)

\* C10 witness: a get has followed a resetNodes that dropped its URI from the
\* cache and a key from the externally visible map.
C10_Witness ==
    /\ last.op = "call"
    /\ last.after.op = "resetNodes"
    /\ calls[last.call].op = "get"
    /\ calls[last.call].uri \in last.after.cached
    /\ last.after.published # {}

\* C3: while the removals of a published key have not outnumbered its
\* renders, the key is in the externally visible map exactly when it has
\* been rendered more often than removed.
C3_PresentWhileRendered ==
    \A key \in DOMAIN reported :
        reported[key] >= 0 =>
            ((key \in DOMAIN _DJEDI_NODES) <=> (reported[key] > 0))

\* The version-stripped URIs the registry holds with a count above zero.
RegistryKeys ==
    {_djediNodesUri(_renderedNodes[i].key.string) :
        i \in {j \in DOMAIN _renderedNodes :
                  /\ _renderedNodes[j].key.typeof = "string"
                  /\ _renderedNodes[j].value # NoValue
                  /\ _renderedNodes[j].value.numInstances > 0}}

\* C4: the keys of the externally visible map are exactly the
\* version-stripped URIs the registry holds with a count above zero.
C4_MapMirrorsRegistry == DOMAIN _DJEDI_NODES = RegistryKeys

\* The requests of the loads the user of the class made.
LoadRequests == {r \in DOMAIN requests : requests[r].from.op \in LoadOps}

\* The step settled a load of the user with a successful response.
LoadSucceeded(step) ==
    /\ step.op = "settle"
    /\ step.request.from.op \in LoadOps
    /\ step.response.ok

\* The cache holds, under the normalized form of every uri of `nodes`, the
\* node of that uri and its value.
CacheHolds(cache, nodes) ==
    \A uri \in DOMAIN nodes :
        /\ HasNode(cache, _normalizeUri(uri))
        /\ cache[_normalizeUri(uri)] =
              [uri |-> _normalizeUri(uri), value |-> nodes[uri]]

C12_FirstDefaultWins ==
    [][\A key \in DOMAIN reported :
          (/\ reported[key] > 0
           /\ key \in DOMAIN reported'
           /\ reported'[key] = reported[key] + 1) =>
              /\ key \in DOMAIN _DJEDI_NODES
              /\ key \in DOMAIN _DJEDI_NODES'
              /\ _DJEDI_NODES'[key] = _DJEDI_NODES[key]
      ]_vars

\* The cache `after` is the cache `before` with the nodes of `results` merged
\* into it: their normalized URIs added or overwritten, every other entry as
\* it was.
Merged(before, after, results) ==
    /\ DOMAIN after = DOMAIN before \cup {_normalizeUri(uri) : uri \in DOMAIN results}
    /\ CacheHolds(after, results)
    /\ \A uri \in DOMAIN before :
          uri \notin {_normalizeUri(u) : u \in DOMAIN results} =>
              after[uri] = before[uri]

\* C13: when the request of a flush settles, whatever happened since the
\* flush (resetNodes included), every callback of the queue the flush
\* captured is invoked in that step, and on success the results are merged
\* into the cache as it is when the response arrives.
C13_InFlightSurvivesReset ==
    [][(last'.op = "settle" /\ last'.request.from.op = "flush") =>
          /\ \A c \in CallbacksOf(last'.request.from.queue) :
                /\ c \in DOMAIN last'.got
                /\ calls'[c].answers = calls[c].answers + 1
          /\ last'.response.ok =>
                Merged(_nodes, _nodes', last'.response.results)
      ]_vars

\* C13 witness: the request of a flush has just succeeded with results,
\* after a resetNodes that came while it was in flight: a call made after the
\* batch was queued was answered from the cache, and its URI has left the
\* cache since.
C13_Witness ==
    /\ FlushSettled
    /\ last.response.ok
    /\ DOMAIN last.response.results # {}
    /\ DOMAIN _nodes = DOMAIN last.response.results
    /\ \E c1 \in CallbacksOf(last.request.from.queue), c2 \in DOMAIN calls :
          /\ c2 > c1
          /\ calls[c2].cached
          /\ calls[c2].uri \notin DOMAIN _nodes

\* The timers getBatched has started.
StartedTimers == {calls[c].timer : c \in DOMAIN calls} \ {NoTimeoutId}

\* The timers that were cancelled: started, not pending and never fired.
CancelledTimers == {t \in StartedTimers : t \notin timers /\ t \notin fired}

\* C14: resetNodes cancels the pending timer; a cancelled timer never fires,
\* is never pending again and no request is ever sent for its batch; and a
\* getBatched call that starts a timer starts one never used before, with a
\* queue that holds that call alone.
C14_ResetCancelsTimer ==
    [][/\ last'.op = "resetNodes" =>
             \A t \in timers : t \notin timers' /\ t \notin fired'
       /\ \A t \in CancelledTimers :
             /\ t \notin timers'
             /\ t \notin fired'
             /\ \A r \in DOMAIN requests' :
                   requests'[r].from.op = "flush" => requests'[r].from.timer # t
       /\ (AddsCall /\ timers' # timers) =>
             /\ timers' = {calls'[Len(calls')].timer}
             /\ calls'[Len(calls')].timer \notin StartedTimers
             /\ _batch'.timeoutId = calls'[Len(calls')].timer
             /\ DOMAIN _batch'.queue = {calls'[Len(calls')].uri}
             /\ _batch'.queue[calls'[Len(calls')].uri].callbacks = <<Len(calls')>>
      ]_vars

\* C14 witness: the timer of a first batch was cancelled, its callback is
\* unanswered and no request was sent for it; a getBatched call made since
\* started a later timer, which has fired.
C14_Witness ==
    \E c1, c2 \in DOMAIN calls :
        /\ calls[c1].timer \in CancelledTimers
        /\ calls[c1].answers = 0
        /\ FlushRequestsOf(calls[c1].timer) = {}
        /\ calls[c2].timer > calls[c1].timer
        /\ calls[c2].timer \in fired
        /\ FlushRequestsOf(calls[c2].timer) # {}

\* C15: the callback of every get or getBatched call is eventually invoked.
C15_EveryCallbackInvoked ==
    \A c \in 1..MaxCalls :
        (c \in DOMAIN calls) ~> (c \in DOMAIN calls /\ calls[c].answers > 0)

\* C16: no step but resetNodes takes a URI out of the cache, and a lookup of
\* a URI that is in the cache is answered from the cache, before it returns
\* and without a request.
C16_NoEviction ==
    [][/\ last'.op # "resetNodes" => DOMAIN _nodes \subseteq DOMAIN _nodes'
       /\ (AddsCall /\ calls'[Len(calls')].uri \in DOMAIN _nodes) =>
             /\ calls'[Len(calls')].cached
             /\ calls'[Len(calls')].answers = 1
             /\ Len(calls') \in DOMAIN last'.got
             /\ requests' = requests
      ]_vars

\* C16 witness: the cache holds a URI while a node is rendered, batching is
\* switched off and a request has settled: steps of every kind have passed
\* over the cache entry.
C16_Witness ==
    /\ _nodes # <<>>
    /\ _renderedNodes # <<>>
    /\ options.batchInterval = 0
    /\ \E r \in DOMAIN requests : Settled(r)
    /\ last.op = "settle"
    /\ ~last.response.ok

\* At most one flush timer is pending, it is the timer of the current batch,
\* and one is pending exactly when the current queue holds a callback.
OneTimerIffQueued(pending, batch) ==
    /\ Cardinality(pending) <= 1
    /\ pending = IF batch.timeoutId = NoTimeoutId THEN {} ELSE {batch.timeoutId}
    /\ (pending # {}) <=> (DOMAIN batch.queue # {})
    /\ \A uri \in DOMAIN batch.queue : batch.queue[uri].callbacks # <<>>

\* C17: in every state at most one flush timer is pending and one is pending
\* if and only if the current queue is non-empty; a getBatched call made
\* while a timer is pending leaves the pending timers as they are.
C17_OneTimerIffQueue ==
    [][/\ OneTimerIffQueued(timers', _batch')
       /\ (AddsCall /\ timers # {}) =>
             /\ timers' = timers
             /\ _batch'.timeoutId = _batch.timeoutId
      ]_vars

\* C17 witness: two getBatched calls are queued behind one pending timer.
C17_Witness ==
    \E c1, c2 \in DOMAIN calls :
        /\ c1 # c2
        /\ calls[c1].timer = calls[c2].timer
        /\ calls[c1].timer \in timers
        /\ {c1, c2} \subseteq CallbacksOf(_batch.queue)

\* C18: the callback of a get or getBatched call is invoked at most once.
C18_AtMostOnce ==
    \A c \in DOMAIN calls : calls[c].answers <= 1

\* C18 witness: two flushes have been answered, the first before the second
\* was sent, and each of the two queued callbacks was invoked once.
C18_Witness ==
    \E r1, r2 \in FlushRequests :
        /\ r1 < r2
        /\ Settled(r1)
        /\ Settled(r2)
        /\ \A c \in DOMAIN calls : calls[c].timer # NoTimeoutId /\ calls[c].answers = 1
        /\ \E c1 \in QueuedWith(requests[r1].from.timer),
              c2 \in QueuedWith(requests[r2].from.timer) : c1 < c2

\* C19: when the request of a get or of a flush succeeds, every callback it
\* invokes gets the same outcome for its URI whichever of the two sent the
\* request: the node the cache now holds for the URI when the response
\* contains it, a missing-URI error of status 1404 when it does not.
C19_GetEqualsGetBatched ==
    (/\ last.op = "settle"
     /\ last.request.from.op \in {"get", "flush"}
     /\ last.response.ok) =>
        \A c \in DOMAIN last.got :
            IF calls[c].uri \in DOMAIN last.response.results
            THEN /\ last.got[c].typeof = "object"
                 /\ HasNode(_nodes, calls[c].uri)
                 /\ last.got[c].arg = _nodes[calls[c].uri]
            ELSE /\ last.got[c].typeof = "object"
                 /\ IsError(last.got[c].arg)
                 /\ last.got[c].arg.status = 1404

\* C20: a request that fails leaves the cache as it was; a request that
\* succeeds adds the URIs of its response and no other, so none it asked for
\* and the response omitted; and a get for a URI that is not in the cache
\* invokes no callback from the cache and sends a request for the URI.
C20_FailedLoadKeepsCache ==
    [][/\ (last'.op = "settle" /\ ~last'.response.ok) => _nodes' = _nodes
       /\ (last'.op = "settle" /\ last'.response.ok) =>
             DOMAIN _nodes' =
                DOMAIN _nodes
                \cup {_normalizeUri(uri) : uri \in DOMAIN last'.response.results}
       /\ (/\ AddsCall
           /\ calls'[Len(calls')].op = "get"
           /\ calls'[Len(calls')].uri \notin DOMAIN _nodes) =>
             /\ last'.got = <<>>
             /\ Len(requests') = Len(requests) + 1
             /\ requests'[Len(requests')].state = "pending"
             /\ requests'[Len(requests')].from.op = "get"
             /\ requests'[Len(requests')].from.uri = calls'[Len(calls')].uri
      ]_vars

\* C20 witness: a request has just failed while the cache held a node.
C20_Witness ==
    /\ last.op = "settle"
    /\ ~last.response.ok
    /\ _nodes # <<>>

====
